---- MODULE Spec2Model ----
(***************************************************************************)
(* Ordered Persistent Journal (src/OPJ/OPJ.py).                            *)
(*                                                                         *)
(* The model follows one journal directory on disk and the one process     *)
(* that owns it: the caller's thread (append, and the iterate / select /   *)
(* contains generators it drives) and the Combine thread (the background   *)
(* compactor).  Every statement of the source at which the other thread    *)
(* may run is a separate action.  Reopen models the death of the process   *)
(* at an arbitrary point followed by OrderedPersistentJournal.open.        *)
(***************************************************************************)
EXTENDS Integers, Sequences, FiniteSets, TLC

\* ---------------------------------------------------------------- bounds
\* Records are the integers 1..MaxRec (a one-field 'i' record).
MaxRec == 2
\* Number of append calls in a behaviour.
MaxAppends == 7
\* ... in the specification with reopens
MaxOpenAppends == 6
\* ... in the specification with three flushes and no reader
MaxCompactAppends == 9
\* ... in the specification with failures
MaxFaultAppends == 6
\* ... in the specification with iter(journal)
MaxIterAppends == 6
\* ... in the specification with appends during an iteration
MaxLiveAppends == 6
\* ... in the specification with select and contains
MaxQueryAppends == 6
\* ... in the specification of three flushes and a merge
MaxRaceAppends == 9
\* Number of times the process dies and the directory is opened again.
MaxReopens == 1
\* OPJ.py:12 sets MAX_BUFFER_SIZE = 1024 records; the model scales it down
\* so that flushes and merges happen within MaxAppends appends.
MAX_BUFFER_SIZE == 2

Rec == 1..MaxRec
\* None, as a bound of select
None == 0
\* uuid4 names: every name is used once; a flush needs an append and a
\* merge needs two segments, so twice the largest number of appends is
\* never exhausted.
MaxFiles == 2 * MaxRaceAppends
FileId == 1..MaxFiles
\* the Buffer as a source of an iterator
BUF == 0
\* in the file 'buffer': a last block shorter than the size of a record
Torn == 0

VARIABLES
    files,        \* directory: FileId -> [name: none|hidden|active|gone, data]
    buffer_file,  \* directory: content of the file 'buffer'
    items,        \* Buffer._items
    fd_open,      \* Buffer has the attribute _fd
    file_list,    \* OrderedPersistentJournal._file_list
    file_queue,   \* OrderedPersistentJournal.file_queue
    lock,         \* _Journal.lock of the reader of each file
    comb,         \* Combine.run: position and locals
    app,          \* OrderedPersistentJournal.append: position and locals
    it,           \* the generator of __iter__ / select: position and locals
    appended,     \* history: all records passed to append, sorted
    nappends,     \* history: number of append calls
    uuid,         \* next unused name
    reopens,      \* history: number of reopens
    before        \* history: what the last Reopen found

vars == <<files, buffer_file, items, fd_open, file_list, file_queue, lock,
          comb, app, it, appended, nappends, uuid, reopens, before>>

\* ------------------------------------------------------- pure functions

\* bisect.bisect_left(a, x): a is indexed from 0 in the source, a[mid + 1] here
RECURSIVE BisectLeftLoop(_, _, _, _)
BisectLeftLoop(a, x, lo, hi) ==
    IF lo < hi
    THEN LET mid == (lo + hi) \div 2
         IN  IF a[mid + 1] < x
             THEN BisectLeftLoop(a, x, mid + 1, hi)
             ELSE BisectLeftLoop(a, x, lo, mid)
    ELSE lo

bisect_left(a, x) == BisectLeftLoop(a, x, 0, Len(a))

\* bisect.bisect_right(a, x)
RECURSIVE BisectRightLoop(_, _, _, _)
BisectRightLoop(a, x, lo, hi) ==
    IF lo < hi
    THEN LET mid == (lo + hi) \div 2
         IN  IF x < a[mid + 1]
             THEN BisectRightLoop(a, x, lo, mid)
             ELSE BisectRightLoop(a, x, mid + 1, hi)
    ELSE lo

bisect_right(a, x) == BisectRightLoop(a, x, 0, Len(a))

\* bisect.insort(a, x): insert x after the entries equal to it
insort(a, x) ==
    LET k == bisect_right(a, x)
    IN  SubSeq(a, 1, k) \o <<x>> \o SubSeq(a, k + 1, Len(a))

\* A merge loop that takes equal heads of the two inputs as one record
RECURSIVE MergeLoopTieDrop(_, _, _, _)
MergeLoopTieDrop(a, b, i, j) ==
    IF i >= Len(a) /\ j >= Len(b) THEN << >>
    ELSE IF i >= Len(a) THEN <<b[j + 1]>> \o MergeLoopTieDrop(a, b, i, j + 1)
    ELSE IF j >= Len(b) THEN <<a[i + 1]>> \o MergeLoopTieDrop(a, b, i + 1, j)
    ELSE IF a[i + 1] < b[j + 1]
         THEN <<a[i + 1]>> \o MergeLoopTieDrop(a, b, i + 1, j)
    ELSE IF b[j + 1] < a[i + 1]
         THEN <<b[j + 1]>> \o MergeLoopTieDrop(a, b, i, j + 1)
    ELSE <<b[j + 1]>> \o MergeLoopTieDrop(a, b, i + 1, j + 1)

\* The merge loop of Combine.run on the records of the two inputs, from the
\* 0-based positions i and j: the smaller head first, item2 on a tie.
RECURSIVE MergeLoop(_, _, _, _)
MergeLoop(a, b, i, j) ==
    IF i >= Len(a) /\ j >= Len(b) THEN << >>
    ELSE IF i >= Len(a) THEN <<b[j + 1]>> \o MergeLoop(a, b, i, j + 1)
    ELSE IF j >= Len(b) THEN <<a[i + 1]>> \o MergeLoop(a, b, i + 1, j)
    ELSE IF a[i + 1] < b[j + 1] THEN <<a[i + 1]>> \o MergeLoop(a, b, i + 1, j)
    ELSE <<b[j + 1]>> \o MergeLoop(a, b, i, j + 1)

\* _Journal.is_active: the name does not start with '_'.  A file has one
\* reader object in the process, and activate / deactivate change the
\* reader's name and the name on disk in one step under the reader's lock,
\* so the two names are one field.
is_active(f) == files[f].name = "active"

\* the list comprehension of _clean_file_list
CleanList(l) == SelectSeq(l, is_active)

\* a get that takes any entry of the queue
QueueAny(q) == q

\* PriorityQueue.get: an entry of least priority (ties: any of them)
QueueMin(q) == {p \in q : \A o \in q : p.priority <= o.priority}

NoItem == [priority |-> 0, item |-> 0]

\* [... for fn in os.listdir(path) if fn.endswith('.opj')], on the set of
\* files of the directory with that ending (listdir gives no order; the
\* model takes the order of the names)
RECURSIVE ListDir(_)
ListDir(S) ==
    IF S = {} THEN << >>
    ELSE LET f == CHOOSE x \in S : \A y \in S : x <= y
         IN  <<f>> \o ListDir(S \ {f})

ActiveFiles == {f \in FileId : is_active(f)}

\* ---------------------------------------------------------------- Init
\* OrderedPersistentJournal.new on an empty directory
CombInit == [pc |-> "get1", item1 |-> NoItem, item2 |-> NoItem, out |-> 0,
             length |-> 0, cleaned |-> << >>]
AppInit == [pc |-> "idle", name |-> 0]
ItInit == [pc |-> "idle", mode |-> "iter", lo |-> None, hi |-> None,
           list |-> << >>, idx |-> 0, live |-> FALSE, held |-> {}, q |-> {},
           cur |-> [src |-> -1, idx |-> 0, till |-> 0, val |-> 0],
           out |-> << >>, clean |-> TRUE, quiet |-> TRUE, idle |-> TRUE,
           snap |-> << >>, outer |-> {}]

\* the compactor waits for the queue: no compaction is in progress
CombineIdle == comb.pc \in {"get1", "get2"}

\* nothing is left for the compactor to do until a segment is put
Quiesced == CombineIdle /\ file_queue = {} /\ app.pc = "idle"

BeforeInit == [quiet |-> FALSE, flushed |-> FALSE, iterated |-> FALSE,
               out |-> << >>, nappends |-> 0, torn |-> FALSE]

Init ==
    /\ files = [f \in FileId |-> [name |-> "none", data |-> << >>]]
    /\ buffer_file = << >>
    /\ items = << >>
    /\ fd_open = FALSE
    /\ file_list = << >>
    /\ file_queue = {}
    /\ lock = [f \in FileId |-> FALSE]
    /\ comb = CombInit
    /\ app = AppInit
    /\ it = ItInit
    /\ appended = << >>
    /\ nappends = 0
    /\ uuid = 1
    /\ reopens = 0
    /\ before = BeforeInit

\* ------------------------------------------------------------- Buffer

\* Buffer.write_on_disk: Buffer.fd opens the file 'buffer' with mode 'wb' on
\* its first use in the life of the Buffer object (truncating it), and every
\* write is appended and flushed to the file.
write_on_disk(file, isopen, item) ==
    (IF isopen THEN file ELSE << >>) \o <<item>>

\* Buffer.read_from_disk: the whole file is read, then every block of it
\* is unpacked and passed to Buffer.append (insort, write_on_disk);
\* struct.unpack raises struct.error on a block shorter than a record.
\* Result: <<_items, buffer file, fd is open, an exception was raised>>.
RECURSIVE ReadLoop(_, _, _, _)
ReadLoop(bs, its, file, isopen) ==
    IF bs = << >> THEN <<its, file, isopen, FALSE>>
    ELSE IF Head(bs) = Torn THEN <<its, file, isopen, TRUE>>
    ELSE ReadLoop(Tail(bs), insort(its, Head(bs)),
                  write_on_disk(file, isopen, Head(bs)), TRUE)

read_from_disk(its, file, isopen) == ReadLoop(file, its, file, isopen)

\* Buffer.flush, the body of 'with writer': the records written to the
\* hidden segment are _items, in order
FlushData(its) == its

\* the priority append gives to the segment of a flush: len(self.buffer),
\* evaluated by the put, after the flush
FlushPriority(its) == Len(its)

\* ------------------------------------------------------------- append
\* OrderedPersistentJournal.append runs in the caller's thread; it cannot
\* start while that thread is inside a next() of a generator (it.pc enter).

\* self.buffer.append(vals) and the test of len(self.buffer)
JournalAppend(r) ==
    /\ app.pc = "idle"
    /\ it.pc # "enter"
    /\ nappends' = nappends + 1
    /\ appended' = insort(appended, r)
    /\ items' = insort(items, r)
    /\ buffer_file' = write_on_disk(buffer_file, fd_open, r)
    /\ fd_open' = TRUE
    /\ it' = [it EXCEPT !.clean = FALSE]
    /\ IF Len(items') > MAX_BUFFER_SIZE
       THEN /\ app' = [pc |-> "flush", name |-> uuid]
            /\ uuid' = uuid + 1
       ELSE UNCHANGED <<app, uuid>>
    /\ UNCHANGED <<files, file_list, file_queue, lock, comb, reopens, before>>

\* Buffer.flush up to the end of 'with writer': the hidden file is created
\* and written, _items is emptied, the file is closed
FlushWrite ==
    /\ app.pc = "flush"
    /\ files' = [files EXCEPT ![app.name] =
                    [name |-> "hidden", data |-> FlushData(items)]]
    /\ items' = << >>
    /\ app' = [app EXCEPT !.pc = "activate"]
    /\ UNCHANGED <<buffer_file, fd_open, file_list, file_queue, lock, comb,
                   it, appended, nappends, uuid, reopens, before>>

\* writer.activate(): rename '_X.opj' to 'X.opj'
FlushActivate ==
    /\ app.pc = "activate"
    /\ files' = [files EXCEPT ![app.name].name = "active"]
    /\ app' = [app EXCEPT !.pc = "list"]
    /\ UNCHANGED <<buffer_file, items, fd_open, file_list, file_queue, lock,
                   comb, it, appended, nappends, uuid, reopens, before>>

\* journal_reader = JournalReader(...); self._file_list.append(journal_reader)
\* The append is in place: a generator of __iter__ that is still walking
\* this list object sees the new entry.
AppendToList ==
    /\ app.pc = "list"
    /\ file_list' = Append(file_list, app.name)
    /\ app' = [app EXCEPT !.pc = "put"]
    /\ UNCHANGED <<files, buffer_file, items, fd_open, file_queue, lock,
                   comb, it, appended, nappends, uuid, reopens, before>>

\* self.file_queue.put(PriorityItem(priority=len(self.buffer), item=...))
AppendPut ==
    /\ app.pc = "put"
    /\ file_queue' = file_queue \cup
           {[priority |-> FlushPriority(items), item |-> app.name]}
    /\ app' = AppInit
    /\ UNCHANGED <<files, buffer_file, items, fd_open, file_list, lock,
                   comb, it, appended, nappends, uuid, reopens, before>>

\* ------------------------------------------------------------ Combine

\* priority_item1 = self.journal.file_queue.get()
CombineGet1 ==
    /\ comb.pc = "get1"
    /\ \E p \in QueueMin(file_queue) :
          /\ file_queue' = file_queue \ {p}
          /\ comb' = [comb EXCEPT !.pc = "get2", !.item1 = p]
    /\ UNCHANGED <<files, buffer_file, items, fd_open, file_list, lock,
                   app, it, appended, nappends, uuid, reopens, before>>

\* priority_item2 = self.journal.file_queue.get(); outname = uuid4
CombineGet2 ==
    /\ comb.pc = "get2"
    /\ \E p \in QueueMin(file_queue) :
          /\ file_queue' = file_queue \ {p}
          /\ comb' = [comb EXCEPT !.pc = "enter1", !.item2 = p, !.out = uuid]
    /\ uuid' = uuid + 1
    /\ UNCHANGED <<files, buffer_file, items, fd_open, file_list, lock,
                   app, it, appended, nappends, reopens, before>>

\* with priority_item1.item: JournalReader.__enter__ acquires the lock
CombineEnter1 ==
    /\ comb.pc = "enter1"
    /\ ~lock[comb.item1.item]
    /\ lock' = [lock EXCEPT ![comb.item1.item] = TRUE]
    /\ comb' = [comb EXCEPT !.pc = "enter2"]
    /\ UNCHANGED <<files, buffer_file, items, fd_open, file_list, file_queue,
                   app, it, appended, nappends, uuid, reopens, before>>

\* with ..., priority_item2.item
CombineEnter2 ==
    /\ comb.pc = "enter2"
    /\ ~lock[comb.item2.item]
    /\ lock' = [lock EXCEPT ![comb.item2.item] = TRUE]
    /\ comb' = [comb EXCEPT !.pc = "writer"]
    /\ UNCHANGED <<files, buffer_file, items, fd_open, file_list, file_queue,
                   app, it, appended, nappends, uuid, reopens, before>>

\* with ..., writer: JournalWriter.__enter__ creates the hidden file
CombineOpenWriter ==
    /\ comb.pc = "writer"
    /\ files' = [files EXCEPT ![comb.out] =
                    [name |-> "hidden", data |-> << >>]]
    /\ comb' = [comb EXCEPT !.pc = "merge"]
    /\ UNCHANGED <<buffer_file, items, fd_open, file_list, file_queue, lock,
                   app, it, appended, nappends, uuid, reopens, before>>

\* the merge loop and the exit of the with statement: the output is
\* written and closed, the locks of both inputs are released
CombineMerge ==
    /\ comb.pc = "merge"
    /\ LET data == MergeLoop(files[comb.item1.item].data,
                             files[comb.item2.item].data, 0, 0)
       IN  /\ files' = [files EXCEPT ![comb.out].data = data]
           /\ comb' = [comb EXCEPT !.pc = "activate", !.length = Len(data)]
    /\ lock' = [lock EXCEPT ![comb.item1.item] = FALSE,
                            ![comb.item2.item] = FALSE]
    /\ UNCHANGED <<buffer_file, items, fd_open, file_list, file_queue,
                   app, it, appended, nappends, uuid, reopens, before>>

\* writer.activate()
CombineActivate ==
    /\ comb.pc = "activate"
    /\ files' = [files EXCEPT ![comb.out].name = "active"]
    /\ comb' = [comb EXCEPT !.pc = "deactivate1"]
    /\ UNCHANGED <<buffer_file, items, fd_open, file_list, file_queue, lock,
                   app, it, appended, nappends, uuid, reopens, before>>

\* priority_item1.item.deactivate(): under the reader's lock, rename
\* 'X.opj' to '_X.opj'
CombineDeactivate1 ==
    /\ comb.pc = "deactivate1"
    /\ ~lock[comb.item1.item]
    /\ files' = [files EXCEPT ![comb.item1.item].name = "hidden"]
    /\ comb' = [comb EXCEPT !.pc = "deactivate2"]
    /\ UNCHANGED <<buffer_file, items, fd_open, file_list, file_queue, lock,
                   app, it, appended, nappends, uuid, reopens, before>>

\* priority_item2.item.deactivate()
CombineDeactivate2 ==
    /\ comb.pc = "deactivate2"
    /\ ~lock[comb.item2.item]
    /\ files' = [files EXCEPT ![comb.item2.item].name = "hidden"]
    /\ comb' = [comb EXCEPT !.pc = "list"]
    /\ UNCHANGED <<buffer_file, items, fd_open, file_list, file_queue, lock,
                   app, it, appended, nappends, uuid, reopens, before>>

\* reader = JournalReader(...); self.journal._file_list.append(reader)
\* (in place: see AppendToList)
CombineAppendToList ==
    /\ comb.pc = "list"
    /\ file_list' = Append(file_list, comb.out)
    /\ it' = IF it.pc = "enter" /\ it.live
             THEN [it EXCEPT !.list = Append(it.list, comb.out)]
             ELSE it
    /\ comb' = [comb EXCEPT !.pc = "clean"]
    /\ UNCHANGED <<files, buffer_file, items, fd_open, file_queue, lock,
                   app, appended, nappends, uuid, reopens, before>>

\* _clean_file_list, the list comprehension: a new list is built from the
\* entries of self._file_list that are active
CombineCleanRead ==
    /\ comb.pc = "clean"
    /\ comb' = [comb EXCEPT !.pc = "store", !.cleaned = CleanList(file_list)]
    /\ UNCHANGED <<files, buffer_file, items, fd_open, file_list, file_queue,
                   lock, app, it, appended, nappends, uuid, reopens, before>>

\* _clean_file_list, the assignment: self._file_list is bound to the new
\* list; a generator walking the old list object keeps the old one
CombineCleanStore ==
    /\ comb.pc = "store"
    /\ file_list' = comb.cleaned
    /\ it' = [it EXCEPT !.live = FALSE]
    /\ comb' = [comb EXCEPT !.pc = "put", !.cleaned = << >>]
    /\ UNCHANGED <<files, buffer_file, items, fd_open, file_queue, lock,
                   app, appended, nappends, uuid, reopens, before>>

\* self.journal.file_queue.put(PriorityItem(priority=length, item=reader))
CombinePut ==
    /\ comb.pc = "put"
    /\ file_queue' = file_queue \cup
           {[priority |-> comb.length, item |-> comb.out]}
    /\ comb' = [comb EXCEPT !.pc = "get1", !.out = 0, !.length = 0]
    /\ UNCHANGED <<files, buffer_file, items, fd_open, file_list, lock,
                   app, it, appended, nappends, uuid, reopens, before>>

Combine ==
    \/ CombineGet1 \/ CombineGet2 \/ CombineEnter1 \/ CombineEnter2
    \/ CombineOpenWriter \/ CombineMerge \/ CombineActivate
    \/ CombineDeactivate1 \/ CombineDeactivate2 \/ CombineAppendToList
    \/ CombineCleanRead \/ CombineCleanStore \/ CombinePut


\* ------------------------------------- __iter__, select, __contains__
\* One generator at a time is followed; snap (history) is what had been
\* appended when it started, outer the segments held by an earlier generator
\* that is suspended while this one runs.  Its queue holds a head per source:
\* the source (a segment, or BUF), the 0-based index of the value, the index
\* at which the source ends (Live: the Buffer under __iter__, whose end is
\* wherever _items ends when it is asked) and the value.

Live == -1
NoHead == [src |-> -1, idx |-> 0, till |-> 0, val |-> 0]

SourceData(src) == IF src = BUF THEN items ELSE files[src].data

\* JournalReader.select / Buffer.select up to the first yield: the two
\* bisections
SelectFrom(a, lo) == IF lo = None THEN 0 ELSE bisect_left(a, lo)
SelectTill(a, hi) == IF hi = None THEN Len(a) ELSE bisect_right(a, hi)

\* the first next() on a source of select: a head, or nothing when
\* from_idx >= till_idx
SelectHead(src, lo, hi) ==
    LET a == SourceData(src)
        from == SelectFrom(a, lo)
        till == SelectTill(a, hi)
    IN  IF from < till
        THEN {[src |-> src, idx |-> from, till |-> till, val |-> a[from + 1]]}
        ELSE {}

\* the first next() on iter(file) / iter(self.buffer): __getitem__(0)
IterHead(src) ==
    LET a == SourceData(src)
    IN  IF Len(a) > 0
        THEN {[src |-> src, idx |-> 0,
               till |-> IF src = BUF THEN Live ELSE Len(a), val |-> a[1]]}
        ELSE {}

\* PriorityQueue.get on OrderedItem: a head of least value
MinHeads(q) == {h \in q : \A o \in q : h.val <= o.val}

\* The sources whose lock is released when the head h has been consumed and
\* its source has no further value: item.file.__exit__ (not the Buffer's)
Released(h) == IF h.src = BUF THEN {} ELSE {h.src}

\* next(item.iter) on the source of head h: "stop" (StopIteration), "error"
\* (Buffer.select indexes _items past its end: IndexError), or the next head
Advance(h) ==
    LET a == SourceData(h.src)
        n == h.idx + 1
        end == IF h.till = Live THEN Len(a) ELSE h.till
    IN  IF n >= end THEN [kind |-> "stop", head |-> NoHead]
        ELSE IF n >= Len(a) THEN [kind |-> "error", head |-> NoHead]
        ELSE [kind |-> "next", head |-> [h EXCEPT !.idx = n, !.val = a[n + 1]]]

\* The generator object is gone: its locals are forgotten.  What it
\* yielded and the locks it still holds are kept for the record.
Finished(g) ==
    [g EXCEPT !.pc = "done", !.list = << >>, !.idx = 0, !.live = FALSE,
              !.q = {}, !.cur = NoHead, !.snap = << >>, !.outer = {}]

\* the while loop up to the next yield: with an empty queue the generator
\* returns, otherwise it yields the value of a least head.  A generator of
\* __contains__ is dropped at its first yield.
Yield(g, q) ==
    IF q = {}
    THEN it' = Finished(g)
    ELSE \E h \in MinHeads(q) :
            LET n == [g EXCEPT !.out = Append(g.out, h.val)]
            IN  it' = IF g.mode = "contains" THEN Finished(n)
                      ELSE [n EXCEPT !.pc = "run", !.q = q \ {h}, !.cur = h]

NewGenerator(mode, lo, hi, live) ==
    [pc |-> "enter", mode |-> mode, lo |-> lo, hi |-> hi, list |-> file_list,
     idx |-> 0, live |-> live, held |-> {}, q |-> {}, cur |-> NoHead,
     out |-> << >>, clean |-> TRUE, quiet |-> Quiesced,
     idle |-> CombineIdle, snap |-> appended, outer |-> {}]

\* the first next() of iter(journal) begins; the list comprehension walks
\* the list object self._file_list itself
IterStart ==
    /\ it.pc \in {"idle", "done", "error"}
    /\ app.pc = "idle"
    /\ it' = NewGenerator("iter", None, None, TRUE)
    /\ UNCHANGED <<files, buffer_file, items, fd_open, file_list, file_queue,
                   lock, comb, app, appended, nappends, uuid, reopens, before>>

\* the first next() of select(lo, hi) begins: list_ = self._file_list.copy()
SelectStart(lo, hi) ==
    /\ it.pc \in {"idle", "done", "error"}
    /\ app.pc = "idle"
    /\ lo = None \/ hi = None \/ lo <= hi
    /\ it' = NewGenerator("select", lo, hi, FALSE)
    /\ UNCHANGED <<files, buffer_file, items, fd_open, file_list, file_queue,
                   lock, comb, app, appended, nappends, uuid, reopens, before>>

\* vals in journal: for _ in self.select(vals, vals)
ContainsStart(r) ==
    /\ it.pc \in {"idle", "done", "error"}
    /\ app.pc = "idle"
    /\ it' = NewGenerator("contains", r, r, FALSE)
    /\ UNCHANGED <<files, buffer_file, items, fd_open, file_list, file_queue,
                   lock, comb, app, appended, nappends, uuid, reopens, before>>

\* iter(journal) is called again while the generator of an earlier call is
\* suspended at a yield, holding the segments it has not exhausted.  The
\* caller drives the new generator; the earlier one keeps what it holds.
IterStartSecond ==
    /\ it.pc = "run"
    /\ app.pc = "idle"
    /\ it' = [NewGenerator("iter", None, None, TRUE) EXCEPT
                 !.outer = it.held \cup it.outer]
    /\ UNCHANGED <<files, buffer_file, items, fd_open, file_list, file_queue,
                   lock, comb, app, appended, nappends, uuid, reopens, before>>

\* __iter__: file.__enter__() on the next entry of the list
IterEnter ==
    /\ it.pc = "enter" /\ it.mode = "iter"
    /\ it.idx < Len(it.list)
    /\ LET f == it.list[it.idx + 1]
       IN  /\ ~lock[f]
           /\ lock' = [lock EXCEPT ![f] = TRUE]
           /\ it' = [it EXCEPT !.idx = it.idx + 1, !.held = it.held \cup {f}]
    /\ UNCHANGED <<files, buffer_file, items, fd_open, file_list, file_queue,
                   comb, app, appended, nappends, uuid, reopens, before>>

\* __iter__: the list is exhausted; the first next() on every source, the
\* loop over i_remove, and the first yield.  An empty segment would be in
\* i_remove and file_list[i].__exit__() raises TypeError.
IterPrime ==
    /\ it.pc = "enter" /\ it.mode = "iter"
    /\ it.idx = Len(it.list)
    /\ LET srcs == {it.list[i] : i \in 1..Len(it.list)} \cup {BUF}
           q == UNION {IterHead(s) : s \in srcs}
           g == [it EXCEPT !.live = FALSE]
       IN  IF \E s \in srcs \ {BUF} : IterHead(s) = {}
           THEN it' = [g EXCEPT !.pc = "error"]
           ELSE Yield(g, q)
    /\ UNCHANGED <<files, buffer_file, items, fd_open, file_list, file_queue,
                   lock, comb, app, appended, nappends, uuid, reopens, before>>

\* select: reader.__enter__() and the first next() on the next segment of
\* the copy.  A segment with no record within the bounds gets no entry in
\* the queue.
SelectEnter ==
    /\ it.pc = "enter" /\ it.mode \in {"select", "contains"}
    /\ it.idx < Len(it.list)
    /\ LET f == it.list[it.idx + 1]
       IN  /\ ~lock[f]
           /\ lock' = [lock EXCEPT ![f] = TRUE]
           /\ it' = [it EXCEPT !.idx = it.idx + 1, !.held = it.held \cup {f},
                               !.q = it.q \cup SelectHead(f, it.lo, it.hi)]
    /\ UNCHANGED <<files, buffer_file, items, fd_open, file_list, file_queue,
                   comb, app, appended, nappends, uuid, reopens, before>>

\* select: the Buffer, last of list_, and the first yield
SelectPrime ==
    /\ it.pc = "enter" /\ it.mode \in {"select", "contains"}
    /\ it.idx = Len(it.list)
    /\ Yield(it, it.q \cup SelectHead(BUF, it.lo, it.hi))
    /\ UNCHANGED <<files, buffer_file, items, fd_open, file_list, file_queue,
                   lock, comb, app, appended, nappends, uuid, reopens, before>>

\* a further next(): the source of the value just yielded is advanced and,
\* when it has ended, released; then the loop runs to the next yield
IterNext ==
    /\ it.pc = "run"
    /\ app.pc = "idle"
    /\ LET n == Advance(it.cur)
       IN  IF n.kind = "error"
           THEN /\ it' = [it EXCEPT !.pc = "error"]
                /\ lock' = lock
           ELSE IF n.kind = "stop"
           THEN /\ lock' = [f \in FileId |->
                               lock[f] /\ f \notin Released(it.cur)]
                /\ Yield([it EXCEPT !.held = it.held \ Released(it.cur)], it.q)
           ELSE /\ lock' = lock
                /\ Yield(it, it.q \cup {n.head})
    /\ UNCHANGED <<files, buffer_file, items, fd_open, file_list, file_queue,
                   comb, app, appended, nappends, uuid, reopens, before>>

\* ------------------------------------------------- _Journal.__del__
\* The objects of the process that refer to the reader of a file
Range(s) == {s[i] : i \in 1..Len(s)}

Referenced ==
    Range(file_list) \cup {p.item : p \in file_queue}
    \cup {comb.item1.item, comb.item2.item, comb.out, app.name}
    \cup Range(comb.cleaned)
    \cup (IF it.pc \in {"enter", "run"} THEN Range(it.list) ELSE {})

\* A reader that nothing refers to is finalised: when its name is hidden,
\* the file is removed under the reader's lock.
Finalize(f) ==
    /\ files[f].name = "hidden"
    /\ f \notin Referenced
    /\ ~lock[f]
    /\ files' = [files EXCEPT ![f] = [name |-> "gone", data |-> << >>]]
    /\ UNCHANGED <<buffer_file, items, fd_open, file_list, file_queue, lock,
                   comb, app, it, appended, nappends, uuid, reopens, before>>

\* ------------------------------------- OrderedPersistentJournal.open
\* an open that removes nothing
SweepNone(fs) == fs

\* for fn in glob('_*.opj'): os.remove(fn)
Sweep(fs) ==
    [f \in FileId |->
        IF fs[f].name = "hidden" THEN [name |-> "gone", data |-> << >>]
        ELSE fs[f]]

\* cls(path, fmt): Buffer.__init__ reads the buffer file, and
\* OrderedPersistentJournal.__init__ calls read_from_disk again (it is not
\* reached when the first call raised)
OpenBuffer(file) ==
    LET r == read_from_disk(<< >>, file, FALSE)
    IN  IF r[4] THEN r ELSE read_from_disk(r[1], r[2], r[3])

\* The process dies (nothing of its memory survives; the directory is as
\* the last completed step left it) and the directory is opened again.
Reopen ==
    /\ reopens < MaxReopens
    /\ reopens' = reopens + 1
    /\ before' = [quiet |-> Quiesced,
                  flushed |-> \E f \in FileId : files[f].name = "active",
                  iterated |-> /\ it.pc = "done" /\ it.mode = "iter"
                               /\ it.clean /\ it.quiet,
                  out |-> IF it.pc = "done" /\ it.mode = "iter"
                          THEN it.out ELSE << >>,
                  nappends |-> nappends, torn |-> FALSE]
    /\ files' = Sweep(files)
    /\ LET b == OpenBuffer(buffer_file)
       IN  /\ items' = b[1]
           /\ buffer_file' = b[2]
           /\ fd_open' = b[3]
    /\ file_list' = ListDir({f \in FileId : files'[f].name \in {"active", "hidden"}})
    /\ file_queue' = {}
    /\ lock' = [f \in FileId |-> FALSE]
    /\ comb' = CombInit
    /\ app' = AppInit
    /\ it' = ItInit
    /\ UNCHANGED <<appended, nappends, uuid>>

\* The process dies inside the self.fd.write(bs) of an append, with a part
\* of the record in the file 'buffer', and the directory is opened again.
\* When read_from_disk raises, open raises: there is no journal object, no
\* compactor and no segment set, and the caller is left with the exception.
ReopenTorn ==
    /\ reopens < MaxReopens
    /\ app.pc = "idle"
    /\ it.pc # "enter"
    /\ reopens' = reopens + 1
    /\ before' = [BeforeInit EXCEPT !.nappends = nappends, !.torn = TRUE]
    /\ files' = Sweep(files)
    /\ LET b == OpenBuffer(write_on_disk(buffer_file, fd_open, Torn))
       IN  IF b[4]
           THEN /\ items' = << >>
                /\ buffer_file' = b[2]
                /\ fd_open' = FALSE
                /\ file_list' = << >>
                /\ app' = [pc |-> "raised", name |-> 0]
           ELSE /\ items' = b[1]
                /\ buffer_file' = b[2]
                /\ fd_open' = b[3]
                /\ file_list' = ListDir({f \in FileId :
                                   files'[f].name \in {"active", "hidden"}})
                /\ app' = AppInit
    /\ file_queue' = {}
    /\ lock' = [f \in FileId |-> FALSE]
    /\ comb' = CombInit
    /\ it' = ItInit
    /\ UNCHANGED <<appended, nappends, uuid>>

\* ------------------------------------------------- failures of a flush
\* Buffer.flush: a writer.append (or the close of the file) raises OSError;
\* the exception leaves the with statement and append.  A part of the
\* records is in the hidden file.
FlushWriteFails ==
    /\ app.pc = "flush"
    /\ \E k \in 0..Len(items) :
          files' = [files EXCEPT ![app.name] =
                       [name |-> "hidden",
                        data |-> SubSeq(FlushData(items), 1, k)]]
    /\ app' = [app EXCEPT !.pc = "failed"]
    /\ UNCHANGED <<buffer_file, items, fd_open, file_list, file_queue, lock,
                   comb, it, appended, nappends, uuid, reopens, before>>

\* Buffer.flush: os.rename in writer.activate() raises OSError; the
\* exception leaves append.  The file keeps its hidden name.
FlushRenameFails ==
    /\ app.pc = "activate"
    /\ app' = [app EXCEPT !.pc = "failed"]
    /\ UNCHANGED <<files, buffer_file, items, fd_open, file_list, file_queue,
                   lock, comb, it, appended, nappends, uuid, reopens, before>>

\* ---------------------------------------------------------------- Next
Flush == FlushWrite \/ FlushActivate \/ AppendToList \/ AppendPut

\* The journal without readers, in one life of the process: the caller
\* appends, the compactor merges, readers that nothing refers to are
\* finalised.
Next ==
    \/ \E r \in Rec : nappends < MaxAppends /\ JournalAppend(r)
    \/ Flush
    \/ Combine
    \/ \E f \in FileId : Finalize(f)

Spec == Init /\ [][Next]_vars

\* The same, where the process may die at any step and the directory be
\* opened again.
NextOpen ==
    \/ \E r \in Rec : nappends < MaxOpenAppends /\ JournalAppend(r)
    \/ Flush
    \/ Combine
    \/ \E f \in FileId : Finalize(f)
    \/ Reopen

SpecOpen == Init /\ [][NextOpen]_vars

\* Three flushes, so that a flushed segment and the output of a merge meet
\* in the queue; records are appended in non-decreasing order.
NextCompact ==
    \/ \E r \in Rec :
          /\ nappends < MaxCompactAppends
          /\ IF appended = << >> THEN TRUE ELSE appended[Len(appended)] <= r
          /\ JournalAppend(r)
    \/ Flush
    \/ Combine
    \/ \E f \in FileId : Finalize(f)

SpecCompact == Init /\ [][NextCompact]_vars

\* The same with failures: a flush whose write or rename raises, and a
\* death of the process in the middle of a write to the file 'buffer'.
NextFault ==
    \/ \E r \in Rec : nappends < MaxFaultAppends /\ JournalAppend(r)
    \/ Flush
    \/ FlushWriteFails \/ FlushRenameFails
    \/ Combine
    \/ \E f \in FileId : Finalize(f)
    \/ Reopen
    \/ ReopenTorn

SpecFault == Init /\ [][NextFault]_vars


\* The caller is between two calls: no generator is suspended or entering
NoReader == it.pc \in {"idle", "done", "error"}

\* The journal with iter(journal): appends are made while no generator is
\* in use, and an iteration may start whenever the caller is free.
NextIter ==
    \/ \E r \in Rec : nappends < MaxIterAppends /\ NoReader /\ JournalAppend(r)
    \/ Flush
    \/ Combine
    \/ IterStart \/ IterEnter \/ IterPrime \/ IterNext
    \/ Reopen

SpecIter == Init /\ [][NextIter]_vars

\* The journal with select and contains, in one process.
NextQuery ==
    \/ \E r \in Rec : nappends < MaxQueryAppends /\ NoReader /\ JournalAppend(r)
    \/ Flush
    \/ Combine
    \/ \E lo, hi \in Rec \cup {None} : SelectStart(lo, hi)
    \/ \E r \in Rec : ContainsStart(r)
    \/ SelectEnter \/ SelectPrime \/ IterNext

SpecQuery == Init /\ [][NextQuery]_vars

\* Three flushes with a merge under way: the caller appends its records in
\* non-decreasing order, and when the last append has returned it makes one
\* query, a select with a lower bound or a contains.
NextRace ==
    \/ \E r \in Rec :
          /\ nappends < MaxRaceAppends
          /\ IF appended = << >> THEN TRUE ELSE appended[Len(appended)] <= r
          /\ JournalAppend(r)
    \/ Flush
    \/ Combine
    \/ \E lo \in Rec \cup {None} :
          it.pc = "idle" /\ nappends = MaxRaceAppends /\ SelectStart(lo, None)
    \/ \E r \in Rec :
          it.pc = "idle" /\ nappends = MaxRaceAppends /\ ContainsStart(r)
    \/ SelectEnter \/ SelectPrime \/ IterNext

SpecRace == Init /\ [][NextRace]_vars

\* The journal with iter(journal) where the caller appends between two
\* steps of an iteration as well, and may start a second iteration while
\* the first is suspended.  Records are appended in non-decreasing order.
NextLive ==
    \/ \E r \in Rec :
          /\ nappends < MaxLiveAppends
          /\ IF appended = << >> THEN TRUE ELSE appended[Len(appended)] <= r
          /\ JournalAppend(r)
    \/ Flush
    \/ Combine
    \/ IterStart \/ IterStartSecond \/ IterEnter \/ IterPrime \/ IterNext

SpecLive == Init /\ [][NextLive]_vars

\* ------------------------------------------------------ the claims

Sorted(s) == \A i \in 1..(Len(s) - 1) : s[i] <= s[i + 1]

Count(s, v) == Cardinality({i \in 1..Len(s) : s[i] = v})

\* the two sequences hold the same records, with multiplicity
SameRecords(s, t) == \A v \in Rec : Count(s, v) = Count(t, v)

Within(lo, hi, r) == (lo = None \/ lo <= r) /\ (hi = None \/ r <= hi)

\* [r for r in sorted(R) if lo <= r <= hi]
Filtered(s, lo, hi) == SelectSeq(s, LAMBDA r : Within(lo, hi, r))

\* how often v is among the records of the files of S
RECURSIVE CountIn(_, _)
CountIn(S, v) ==
    IF S = {} THEN 0
    ELSE LET f == CHOOSE x \in S : TRUE
         IN  Count(files[f].data, v) + CountIn(S \ {f}, v)

\* how often v is among the live records: the buffer and the active segments
LiveCount(v) == Count(items, v) + CountIn(ActiveFiles, v)

IterDone == it.pc = "done" /\ it.mode = "iter"

\* C1: on a journal made by new and never reopened, an iteration started
\* after the last append and consumed to exhaustion yields sorted(R): every
\* appended record once, in non-decreasing order, whatever the compactor
\* does meanwhile.
C1_IterateIsSortedAppended ==
    (reopens = 0 /\ IterDone /\ it.clean) => it.out = appended

\* C2: after at least one flush and with the compactor quiesced, an
\* iteration after the reopen yields the same records in the same order as
\* the iteration before it.
C2_ReopenKeepsIteration ==
    (/\ reopens = 1 /\ before.quiet /\ before.flushed /\ before.iterated
     /\ nappends = before.nappends /\ IterDone)
    => it.out = before.out

\* C3: fewer than MAX_BUFFER_SIZE records appended to a new journal (no
\* flush), the journal dropped and the directory reopened: the iteration
\* yields exactly those records, each once, sorted.
C3_ReopenRecoversBuffer ==
    (/\ reopens = 1 /\ before.nappends < MAX_BUFFER_SIZE /\ ~before.flushed
     /\ nappends = before.nappends /\ IterDone)
    => it.out = appended

\* C4: with no compaction in progress at its start, a select(lo, hi)
\* consumed to exhaustion yields sorted(R) filtered by lo <= r <= hi.
C4_SelectIsFilteredSorted ==
    (/\ reopens = 0 /\ it.pc = "done" /\ it.mode = "select"
     /\ it.clean /\ it.idle)
    => it.out = Filtered(appended, it.lo, it.hi)

\* C5: contains(r) is true if and only if r was appended.
C5_ContainsIffAppended ==
    (reopens = 0 /\ it.pc = "done" /\ it.mode = "contains" /\ it.clean)
    => ((it.out # << >>) <=> (Count(appended, it.lo) > 0))

\* C6: once 2 * MAX_BUFFER_SIZE records have been appended and nothing is
\* left to run (the caller is between calls, no step of the compactor is
\* enabled), one active segment file is in the directory.
C6_ConvergesToOneSegment ==
    (/\ nappends >= 2 * MAX_BUFFER_SIZE /\ app.pc = "idle" /\ NoReader
     /\ ~ENABLED Combine)
    => Cardinality(ActiveFiles) = 1

\* C7: a compaction publishes one output segment that holds the records of
\* its two inputs, with multiplicity, in non-decreasing order, and retires
\* the inputs; outside the publication of a flush or of a merge the live
\* records (buffer and active segments) of a journal that was never
\* reopened are the appended ones.
C7_MergeKeepsRecords ==
    /\ comb.pc \in {"list", "clean", "store", "put"} =>
          LET a == files[comb.item1.item]
              b == files[comb.item2.item]
              o == files[comb.out]
          IN  /\ o.name = "active" /\ a.name = "hidden" /\ b.name = "hidden"
              /\ Sorted(o.data)
              /\ SameRecords(o.data, a.data \o b.data)
              /\ Len(o.data) = comb.length
    /\ (/\ reopens = 0 /\ app.pc # "activate"
        /\ comb.pc \notin {"deactivate1", "deactivate2"})
       => \A v \in Rec : LiveCount(v) = Count(appended, v)

\* C7 witness: a merge of two segments that share a record and differ in
\* another has been published and its inputs retired
C7_Witness ==
    /\ comb.pc = "put"
    /\ \E v \in Rec : /\ Count(files[comb.item1.item].data, v) > 0
                      /\ Count(files[comb.item2.item].data, v) > 0
    /\ files[comb.out].data[1] # files[comb.out].data[comb.length]

\* C8: open removes every hidden '_*.opj' file before it lists the
\* segments: after it no file is hidden, and the segment set is made of
\* the files that were active, which are as they were.
C8_OpenSweepsHidden ==
    [][reopens' = reopens + 1 =>
          /\ \A f \in FileId : files'[f].name # "hidden"
          /\ file_list' = ListDir(ActiveFiles)
          /\ \A f \in ActiveFiles : files'[f] = files[f]]_vars

\* C8 witness: the directory was opened after the process died with the
\* hidden file of its first flush written and not yet renamed; the file is
\* gone and the buffer was recovered
C8_Witness ==
    /\ reopens = 1 /\ uuid = 2
    /\ files[1].name = "gone"
    /\ items # << >>

\* C9: when the process dies during a compaction and the directory is
\* opened again, the merge is either published with both inputs gone or
\* has no visible effect.
C9_CompactionSurvivesCrash ==
    [][(/\ reopens' = reopens + 1
        /\ comb.pc \in {"writer", "merge", "activate", "deactivate1",
                        "deactivate2", "list", "clean", "store"})
       => LET a == comb.item1.item
              b == comb.item2.item
              o == comb.out
          IN  \/ /\ files'[o].name = "active"
                 /\ files'[a].name # "active" /\ files'[b].name # "active"
              \/ /\ files'[o].name # "active"
                 /\ files'[a].name = "active" /\ files'[b].name = "active"
      ]_vars

\* C10: whenever no append and no compaction is in progress, the segment
\* set is the set of active '*.opj' files of the directory.
C10_SegmentSetIsDirectory ==
    (app.pc = "idle" /\ CombineIdle) => Range(file_list) = ActiveFiles

\* C11: when a flush has emptied the in-memory buffer the file 'buffer' is
\* empty too, and whenever the caller is between two calls the file holds
\* the records appended since the last flush and no others: the records of
\* the in-memory buffer.
C11_FlushEmptiesBufferFile ==
    /\ app.pc \in {"activate", "list", "put"} =>
          (items = << >> /\ buffer_file = << >>)
    /\ app.pc = "idle" => SameRecords(buffer_file, items)

\* C13: a select or an iteration that was consumed to exhaustion holds no
\* segment: every reader it entered has been released.
C13_ExhaustedReleasesAll ==
    (it.pc = "done" /\ it.mode \in {"iter", "select"}) =>
        it.held = {}

\* C14: a contains that returned at its first match, dropping the
\* generator, holds no segment afterwards.
C14_AbandonedReleasesAll ==
    (it.pc = "done" /\ it.mode = "contains" /\ it.out # << >>) =>
        it.held = {}

\* C15: the segment set an iteration or a select starts from holds no
\* retired (hidden) segment.
C15_SnapshotHasNoRetired ==
    [][(it'.pc = "enter" /\ it.pc # "enter") =>
          \A f \in Range(it'.list) : files[f].name # "hidden"]_vars

\* C18: every entry of the compaction queue has a priority equal to the
\* number of records of its segment.
C18_PriorityIsRecordCount ==
    \A p \in file_queue : p.priority = Len(files[p.item].data)

\* C12: a segment held by an earlier iterator that is not exhausted can be
\* acquired by a later one: the later iterator is not made to wait at it.
C12_ReadersShareSegment ==
    (/\ it.pc = "enter" /\ it.mode = "iter" /\ it.idx < Len(it.list)
     /\ it.list[it.idx + 1] \in it.outer)
    => ENABLED IterEnter

\* C16: an iteration of a journal that was never reopened, started with no
\* compaction under way, ends having yielded the sorted records that had
\* been appended when it started, whatever is appended between its steps.
C16_IterateYieldsSnapshot ==
    [][(/\ it.pc = "run" /\ it'.pc = "done" /\ it.mode = "iter"
        /\ it.quiet /\ it.outer = {} /\ comb.pc = "get1")
       => it'.out = it.snap]_vars

\* C17: when the write or the rename of a flush has failed, the in-memory
\* buffer holds every record it held before the flush: with the active
\* segments it holds the appended records (no merge being published).
C17_FailedFlushKeepsBuffer ==
    (/\ reopens = 0 /\ app.pc = "failed"
     /\ comb.pc \notin {"deactivate1", "deactivate2"})
    => \A v \in Rec : LiveCount(v) = Count(appended, v)

\* C20: an open that finds a short last block in the file 'buffer' of a
\* journal's first life raises nothing, and the buffer it recovers holds
\* the records of the complete blocks, which are the appended records that
\* were not flushed.
C20_TornTailDiscarded ==
    (reopens = 1 /\ before.torn /\ before.nappends > 0) =>
        /\ app.pc # "raised"
        /\ (ActiveFiles = {} => items = appended)

\* C19 as stated: the compactor takes its first segment off the queue only
\* when at least two entries are present (it never holds one segment while
\* it waits for a second).
C19_DequeuesWhenTwoPresent ==
    [][(comb.pc = "get1" /\ comb'.pc = "get2")
       => Cardinality(file_queue) >= 2]_vars

\* C19 amended: the compactor takes an entry of least priority as soon as
\* one is present, keeps it, and takes as the second an entry of least
\* priority of the queue as it is at that later moment; each get removes
\* the entry it returns and no other.
C19_DequeuesLeastOneByOne ==
    [][/\ (comb.pc = "get1" /\ comb'.pc = "get2") =>
             /\ comb'.item1 \in file_queue
             /\ \A o \in file_queue : comb'.item1.priority <= o.priority
             /\ file_queue' = file_queue \ {comb'.item1}
       /\ (comb.pc = "get2" /\ comb'.pc = "enter1") =>
             /\ comb'.item1 = comb.item1
             /\ comb'.item2 \in file_queue
             /\ \A o \in file_queue : comb'.item2.priority <= o.priority
             /\ file_queue' = file_queue \ {comb'.item2}
      ]_vars

\* C19 witness: the compactor holds the flushed segment it took first while
\* the queue holds the output of a merge, of greater priority
C19_Witness ==
    /\ comb.pc = "get2"
    /\ \E o \in file_queue : o.priority > comb.item1.priority

\* the segments the compactor has on its queue or in its hands
Compactible ==
    {p.item : p \in file_queue}
    \cup {comb.item1.item, comb.item2.item, comb.out}

\* C21: whenever the caller is between two calls, every segment of the
\* segment set is on the compaction queue or held by the compactor, also
\* after an open; and when nothing is left for the compactor to do after an
\* open that was followed by no append, at most one segment is active.
C21_SegmentSetIsQueued ==
    /\ app.pc = "idle" => Range(file_list) \subseteq Compactible
    /\ (/\ reopens > 0 /\ nappends = before.nappends /\ app.pc = "idle"
        /\ ~ENABLED Combine)
       => Cardinality(ActiveFiles) <= 1

\* C21 in the first life of a journal, where every segment comes from a
\* flush or a merge
C21_FirstLife ==
    (reopens = 0 /\ app.pc = "idle") => Range(file_list) \subseteq Compactible

====
